---- MODULE Spec2Model ----
(***************************************************************************)
(* A model of the ntex-h2 dispatcher (src/src/dispatcher.rs): the service  *)
(* that takes one DispatchItem at a time from the transport, routes it     *)
(* through the Connection, and folds the outcome into a future that calls  *)
(* the Publish service and/or the Control service.                         *)
(*                                                                         *)
(* Every effect a handler has on the Connection or on a service is written *)
(* to the log of the future it belongs to, in program order, so that the   *)
(* order of effects inside one item's processing can be stated.            *)
(***************************************************************************)
EXTENDS Integers, Sequences, FiniteSets, TLC

VARIABLES futs, ret, shutdown, term, streams, draining, client

vars == <<futs, ret, shutdown, term, streams, draining, client>>

(***************************************************************************)
(* Bounds of the model.                                                    *)
(***************************************************************************)
\* how many futures returned by Dispatcher::call may be unresolved at once
MaxInflight == 1
\* stream ids are 1..MaxStream (0 is the connection itself)
MaxStream == 2
\* PING payloads are 1..MaxPayload (an opaque 8-octet value each)
MaxPayload == 2
\* frames of one stream the Connection takes before it answers no more
MaxFrames == 3
\* the payload of a raw PING frame has 0 .. MaxPingLen octets
MaxPingLen == 9
\* how many times a future is polled while the service's future is pending
MaxPolls == 2

StreamIds == 1 .. MaxStream

\* frame/ping.rs: type Payload = [u8; 8]
PayloadLen == 8

\* n octets, each of value p
Octets(n, p) == [i \in 1 .. n |-> p]

Payloads == {Octets(PayloadLen, p) : p \in 1 .. MaxPayload}

(***************************************************************************)
(* Frames, errors, messages.                                               *)
(***************************************************************************)
NoFrame == [type |-> "None"]

Reasons == {"NO_ERROR", "PROTOCOL_ERROR"}

\* Errors of the application's services are opaque to the dispatcher.
PubErrors == {"pub_err"}

\* frame/ping.rs: Ping { ack, payload }
Ping_new(payload) == [type |-> "Ping", ack |-> FALSE, payload |-> payload]

Ping_pong(payload) == [type |-> "Ping", ack |-> TRUE, payload |-> payload]

\* frame/ping.rs: const ACK_FLAG: u8 = 0x1
ACK_FLAG == 1

\* flags & ACK_FLAG != 0, for the one-bit mask ACK_FLAG
FlagSet(flag, mask) == (flag \div mask) % 2 = 1

\* Ping::load with the payload size checked ahead of the stream id
Ping_load_size_first(head, bytes) ==
    IF Len(bytes) # PayloadLen THEN [tag |-> "Err", err |-> "BadFrameSize"]
    ELSE IF head.stream_id # 0 THEN [tag |-> "Err", err |-> "InvalidStreamId"]
    ELSE [tag |-> "Ok", err |-> "",
          ping |-> [type |-> "Ping", ack |-> FlagSet(head.flag, ACK_FLAG),
                    payload |-> bytes]]

\* Ping::load(head, bytes)
Ping_load(head, bytes) ==
    IF head.stream_id # 0 THEN [tag |-> "Err", err |-> "InvalidStreamId"]
    ELSE IF Len(bytes) # PayloadLen THEN [tag |-> "Err", err |-> "BadFrameSize"]
    ELSE [tag |-> "Ok", err |-> "",
          ping |-> [type |-> "Ping", ack |-> FlagSet(head.flag, ACK_FLAG),
                    payload |-> bytes]]

\* GoAway::new(reason), last_stream_id 0 and no debug data until set; the
\* debug data is a text, kept as the sequence of its parts
GoAway_new(reason) ==
    [type |-> "GoAway", last_stream_id |-> 0, reason |-> reason, data |-> <<>>]

set_last_stream_id(frm, id) == [frm EXCEPT !.last_stream_id = id]

set_data(frm, data) == [frm EXCEPT !.data = data]

Reset_new(id, reason) == [type |-> "Reset", stream_id |-> id, reason |-> reason]

\* error.rs: ProtocolError, by variant; arg is the variant's payload
ProtocolError(kind, arg) == [kind |-> kind, arg |-> arg]

\* impl From<EncoderError> for ProtocolError (#[from])
From_EncoderError(e) == ProtocolError("Encoder", e)

\* impl From<frame::FrameError> for ProtocolError (#[from])
From_FrameError(e) == ProtocolError("Frame", e)

KeepaliveTimeout == ProtocolError("KeepaliveTimeout", "")

\* ProtocolError::to_goaway
to_goaway(err) ==
    CASE err.kind = "Reason" -> GoAway_new(err.arg)
      [] err.kind = "Encoder" ->
            set_data(GoAway_new("PROTOCOL_ERROR"), <<"error during frame encoding">>)
      [] err.kind = "MissingPseudo" ->
            set_data(GoAway_new("PROTOCOL_ERROR"), <<"Missing pseudo header ", err.arg>>)
      [] err.kind = "UnexpectedPseudo" ->
            set_data(GoAway_new("PROTOCOL_ERROR"), <<"Unexpected pseudo header ", err.arg>>)
      [] err.kind = "UnknownStream" ->
            set_data(GoAway_new("PROTOCOL_ERROR"), <<"unknown stream">>)
      [] err.kind = "InvalidStreamId" ->
            set_data(GoAway_new("PROTOCOL_ERROR"),
                     <<"An invalid stream identifier was provided">>)
      [] err.kind = "StreamIdle" ->
            set_data(GoAway_new("PROTOCOL_ERROR"), <<"Stream idle: ", err.arg>>)
      [] err.kind = "StreamClosed" ->
            set_data(GoAway_new("STREAM_CLOSED"), <<err.arg, " is closed">>)
      [] err.kind = "UnexpectedSettingsAck" ->
            set_data(GoAway_new("PROTOCOL_ERROR"), <<"received unexpected settings ack">>)
      [] err.kind = "ZeroWindowUpdateValue" ->
            set_data(GoAway_new("PROTOCOL_ERROR"),
                     <<"zero value for window update frame is not allowed">>)
      [] err.kind = "KeepaliveTimeout" ->
            set_data(GoAway_new("NO_ERROR"), <<"keep-alive timeout">>)
      [] err.kind = "Frame" ->
            set_data(GoAway_new("PROTOCOL_ERROR"), <<"protocol error: ", err.arg>>)

\* error.rs: StreamError, by variant; arg is the variant's payload
StreamError(kind, arg) == [kind |-> kind, arg |-> arg]

\* StreamError::reason giving PROTOCOL_ERROR for every variant
StreamError_reason_all_protocol(err) == "PROTOCOL_ERROR"

\* StreamError::reason
StreamError_reason(err) ==
    CASE err.kind = "Idle" -> "PROTOCOL_ERROR"
      [] err.kind = "Closed" -> "STREAM_CLOSED"
      [] err.kind = "WindowOverflowed" -> "FLOW_CONTROL_ERROR"
      [] err.kind = "WindowZeroUpdateValue" -> "PROTOCOL_ERROR"
      [] err.kind = "TrailersWithoutEos" -> "PROTOCOL_ERROR"
      [] err.kind = "InvalidContentLength" -> "PROTOCOL_ERROR"
      [] err.kind = "WrongPayloadLength" -> "PROTOCOL_ERROR"
      [] err.kind = "NonEmptyPayload" -> "PROTOCOL_ERROR"

\* message.rs: Message::new builds MessageKind::Headers { pseudo, headers, eof }
Message_new(headers, eof, stream) ==
    [stream |-> stream, kind |-> "Headers", body |-> headers, eof |-> eof]

\* Message::data never building the Eof variant
Message_data_no_eof(data, eof, stream) ==
    [stream |-> stream, kind |-> "Data", body |-> data, eof |-> FALSE]

\* Message::data building the Eof variant whatever eof is
Message_data_always_eof(data, eof, stream) ==
    [stream |-> stream, kind |-> "Eof", body |-> data, eof |-> TRUE]

\* message.rs: Message::data builds Eof(StreamEof::Data(data)) or Data(data)
Message_data(data, eof, stream) ==
    IF eof THEN [stream |-> stream, kind |-> "Eof", body |-> data, eof |-> TRUE]
           ELSE [stream |-> stream, kind |-> "Data", body |-> data, eof |-> FALSE]

(***************************************************************************)
(* ControlMessage constructors, as the dispatcher calls them.              *)
(***************************************************************************)
ControlMessage(kind, a, b) == [kind |-> kind, a |-> a, b |-> b]

proto_error(err) == ControlMessage("ProtocolError", err, 0)

stream_error(err) == ControlMessage("StreamError", err.kind, err.stream)

app_error(e, stream) == ControlMessage("AppError", e, stream)

go_away(frm) == ControlMessage("GoAway", frm, 0)

peer_gone(err) == ControlMessage("PeerGone", err, 0)

terminated(is_error) == ControlMessage("Terminated", is_error, 0)

(***************************************************************************)
(* What a poll of a service future may return.                             *)
(***************************************************************************)
\* frames a Control service may hand back in ControlResult.frame
CtlFrames ==
    {NoFrame, GoAway_new("PROTOCOL_ERROR")}
        \cup {Reset_new(id, "CANCEL") : id \in 0 .. MaxStream}

Pending == [tag |-> "Pending", frame |-> NoFrame, disconnect |-> FALSE, err |-> ""]

\* Poll::Ready(Ok(ControlResult { frame, disconnect }))
CtlOk == [tag : {"Ok"}, frame : CtlFrames, disconnect : BOOLEAN, err : {""}]

\* Poll::Ready(Err(_)) of the Control service
CtlErr == [tag |-> "Err", frame |-> NoFrame, disconnect |-> FALSE, err |-> "ctl_err"]

CtlPolls == {Pending, CtlErr} \cup CtlOk

\* Poll of P::Future: Pending, Ready(Ok(())), Ready(Err(e))
PubPolls ==
    {Pending, [Pending EXCEPT !.tag = "Ok"]}
        \cup {[Pending EXCEPT !.tag = "Err", !.err = e] : e \in PubErrors}

(***************************************************************************)
(* Futures returned by Dispatcher::call.  either: which arm of ServiceFut; *)
(* state: PublishResponseState (Publish, Control) or Ready/Resolved; log:  *)
(* the effects performed for this item so far, in program order; out: the  *)
(* future's output once resolved.                                          *)
(***************************************************************************)
Ev(op, arg) == [op |-> op, arg |-> arg]

Unresolved == [tag |-> "Unresolved", frame |-> NoFrame]

\* Poll::Ready(Ok(frame)) with frame: Option<Frame>
Ok(frame) == [tag |-> "Ok", frame |-> frame]

\* Inner.last_stream_id, set once by Dispatcher::new
last_stream_id == 0

\* Either::Right(Either::Left(Ready::Ok(None)))
ReadyNone ==
    [either |-> "RightLeft", state |-> "Ready", stream |-> 0, log |-> <<>>,
     out |-> Unresolved]

\* ControlResponse::new(pkt, inner): calls inner.control.call(pkt)
ControlResponse_new(pkt) ==
    [either |-> "RightRight", state |-> "Control", stream |-> 0,
     log |-> <<Ev("control.call", pkt)>>, out |-> Unresolved]

\* handle_message building the PublishResponse without calling Publish
PublishResponse_new_call_deferred(msg, stream) ==
    [either |-> "Left", state |-> "Publish", stream |-> stream,
     log |-> <<>>, out |-> Unresolved]

\* PublishResponse::new(self.publish.call(msg), stream, inner)
PublishResponse_new(msg, stream) ==
    [either |-> "Left", state |-> "Publish", stream |-> stream,
     log |-> <<Ev("publish.call", msg)>>, out |-> Unresolved]

\* f, with the effects in `before` performed ahead of those f was built with
After(before, f) == [f EXCEPT !.log = before \o @]

(***************************************************************************)
(* What the Connection hands back to the dispatcher.  The Connection's own *)
(* code decides which; to the dispatcher every outcome is possible.        *)
(***************************************************************************)
NoMsg == [stream |-> 0, kind |-> "None", body |-> 0, eof |-> FALSE]

NoErr == [kind |-> "None", arg |-> ""]

\* Ok(()) / Ok(None)
ResOk == [tag |-> "Ok", stream |-> 0, msg |-> NoMsg, err |-> NoErr]

\* Ok(Some((stream, msg)))
ResMsg(msg) == [ResOk EXCEPT !.tag = "Msg", !.stream = msg.stream, !.msg = msg]

\* Err(ProtocolError) / Err(Either::Left(ProtocolError))
ResProtoErr(err) == [ResOk EXCEPT !.tag = "ProtoErr", !.err = err]

\* Err(Either::Right(StreamError)) for `stream`
ResStreamErr(stream, kind) ==
    [ResOk EXCEPT !.tag = "StreamErr", !.stream = stream,
                  !.err = [kind |-> kind, arg |-> ""]]

\* the ProtocolErrors a recv_* call of the Connection may raise
ConnErrors ==
    {ProtocolError("UnknownStream", ""), ProtocolError("ZeroWindowUpdateValue", "")}

ConnStreamErrors == {"WindowZeroUpdateValue"}

recv_headers(hdrs) ==
    {ResOk, ResMsg(Message_new(0, hdrs.eof, hdrs.stream_id))}
        \cup {ResProtoErr(e) : e \in ConnErrors}

recv_data(data) ==
    {ResOk, ResMsg(Message_data(data.data, data.eof, data.stream_id))}
        \cup {ResProtoErr(e) : e \in ConnErrors}

recv_settings(settings) == {ResOk} \cup {ResProtoErr(e) : e \in ConnErrors}

recv_window_update(update) ==
    {ResOk} \cup {ResProtoErr(e) : e \in ConnErrors}
        \cup {ResStreamErr(update.stream_id, k) :
                 k \in IF update.stream_id = 0 THEN {} ELSE ConnStreamErrors}

recv_rst_stream(reset) ==
    {ResOk} \cup {ResProtoErr(e) : e \in ConnErrors}
        \cup {ResStreamErr(reset.stream_id, k) : k \in ConnStreamErrors}

(***************************************************************************)
(* Dispatcher: the three folding helpers.                                  *)
(***************************************************************************)
handle_message(result) ==
    CASE result.tag = "Msg" -> PublishResponse_new(result.msg, result.stream)
      [] result.tag = "Ok" -> ReadyNone
      [] result.tag = "ProtoErr" ->
            After(<<Ev("proto_error", result.err)>>,
                  ControlResponse_new(proto_error(result.err)))

\* handle_proto_error with the Control call made ahead of connection.proto_error
handle_proto_error_control_first(result) ==
    CASE result.tag = "Ok" -> ReadyNone
      [] result.tag = "ProtoErr" ->
            [ControlResponse_new(proto_error(result.err))
                EXCEPT !.log = @ \o <<Ev("proto_error", result.err)>>]

handle_proto_error(result) ==
    CASE result.tag = "Ok" -> ReadyNone
      [] result.tag = "ProtoErr" ->
            After(<<Ev("proto_error", result.err)>>,
                  ControlResponse_new(proto_error(result.err)))

\* handle_mixed_error treating a StreamError as a connection-level error
handle_mixed_error_as_proto_error(result) ==
    CASE result.tag = "Ok" -> ReadyNone
      [] result.tag \in {"ProtoErr", "StreamErr"} ->
            After(<<Ev("proto_error", result.err)>>,
                  ControlResponse_new(proto_error(result.err)))

handle_mixed_error(result) ==
    CASE result.tag = "Ok" -> ReadyNone
      [] result.tag = "ProtoErr" ->
            After(<<Ev("proto_error", result.err)>>,
                  ControlResponse_new(proto_error(result.err)))
      [] result.tag = "StreamErr" ->
            LET err == [kind |-> result.err.kind, stream |-> result.stream]
            IN  After(<<Ev("set_failed_stream", err)>>,
                      ControlResponse_new(stream_error(err)))

(***************************************************************************)
(* DispatchItem: what the transport delivers.                              *)
(***************************************************************************)
HeadersFrames == [type : {"Headers"}, stream_id : StreamIds, eof : BOOLEAN]

DataFrames == [type : {"Data"}, stream_id : StreamIds, eof : BOOLEAN, data : {1}]

SettingsFrames == {[type |-> "Settings"]}

WindowUpdateFrames == [type : {"WindowUpdate"}, stream_id : 0 .. MaxStream]

ResetFrames == {Reset_new(id, "CANCEL") : id \in StreamIds}

PingFrames == {Ping_new(p) : p \in Payloads} \cup {Ping_pong(p) : p \in Payloads}

GoAwayFrames ==
    {set_last_stream_id(GoAway_new(r), id) : r \in Reasons, id \in 0 .. MaxStream}

PriorityFrames == {[type |-> "Priority"]}

Frames ==
    HeadersFrames \cup DataFrames \cup SettingsFrames \cup WindowUpdateFrames
        \cup ResetFrames \cup PingFrames \cup GoAwayFrames \cup PriorityFrames

DispatchItem(kind, frame, err) == [kind |-> kind, frame |-> frame, err |-> err]

Requests ==
    {DispatchItem("Item", f, "") : f \in Frames}
        \cup {DispatchItem("EncoderError", NoFrame, "enc_err"),
              DispatchItem("DecoderError", NoFrame, "dec_err"),
              DispatchItem("KeepAliveTimeout", NoFrame, ""),
              DispatchItem("Disconnect", NoFrame, "io_err"),
              DispatchItem("WBackPressureEnabled", NoFrame, ""),
              DispatchItem("WBackPressureDisabled", NoFrame, "")}

\* the outcomes of the Connection call Dispatcher::call makes for `request`
\* (ResOk where it makes none that returns a result)
ConnResults(request) ==
    IF request.kind # "Item" THEN {ResOk}
    ELSE CASE request.frame.type = "Headers" -> recv_headers(request.frame)
           [] request.frame.type = "Data" -> recv_data(request.frame)
           [] request.frame.type = "Settings" -> recv_settings(request.frame)
           [] request.frame.type = "WindowUpdate" -> recv_window_update(request.frame)
           [] request.frame.type = "Reset" -> recv_rst_stream(request.frame)
           [] OTHER -> {ResOk}

(***************************************************************************)
(* Dispatcher::call: the future built for `request`, given the outcome     *)
(* `res` of the Connection call it makes.                                  *)
(***************************************************************************)
\* the Item arm answering a PRIORITY frame with a connection error
call_Item_priority_rejected(frame, res) ==
    CASE frame.type \in {"Headers", "Data"} -> handle_message(res)
      [] frame.type = "Settings" -> handle_proto_error(res)
      [] frame.type \in {"WindowUpdate", "Reset"} -> handle_mixed_error(res)
      [] frame.type = "Ping" -> ReadyNone
      [] frame.type = "GoAway" ->
            After(<<Ev("recv_go_away", <<frame.reason, frame.data>>)>>,
                  ControlResponse_new(go_away(frame)))
      [] frame.type = "Priority" ->
            After(<<Ev("proto_error", ProtocolError("Reason", "PROTOCOL_ERROR"))>>,
                  ControlResponse_new(proto_error(ProtocolError("Reason",
                                                                "PROTOCOL_ERROR"))))

\* the DispatchItem::Item(frame) arm
call_Item(frame, res) ==
    CASE frame.type = "Headers" -> handle_message(res)
      [] frame.type = "Data" -> handle_message(res)
      [] frame.type = "Settings" -> handle_proto_error(res)
      [] frame.type = "WindowUpdate" -> handle_mixed_error(res)
      [] frame.type = "Reset" -> handle_mixed_error(res)
      [] frame.type = "Ping" -> ReadyNone
      [] frame.type = "GoAway" ->
            After(<<Ev("recv_go_away", <<frame.reason, frame.data>>)>>,
                  ControlResponse_new(go_away(frame)))
      [] frame.type = "Priority" -> ReadyNone

\* the DispatchItem::EncoderError(err) arm
call_EncoderError(e) ==
    LET err == From_EncoderError(e)
    IN  After(<<Ev("proto_error", err)>>, ControlResponse_new(proto_error(err)))

\* the DecoderError arm dropping the error without telling Control
call_DecoderError_dropped(e) == ReadyNone

\* the DispatchItem::DecoderError(err) arm
call_DecoderError(e) ==
    LET err == From_FrameError(e)
    IN  After(<<Ev("proto_error", err)>>, ControlResponse_new(proto_error(err)))

\* the KeepAliveTimeout arm telling Control that the peer is gone, and raising
\* no connection error
call_KeepAliveTimeout_as_disconnect == ControlResponse_new(peer_gone(""))

\* the DispatchItem::KeepAliveTimeout arm
call_KeepAliveTimeout ==
    After(<<Ev("proto_error", KeepaliveTimeout)>>,
          ControlResponse_new(proto_error(KeepaliveTimeout)))

\* the Disconnect arm raising a connection error for the lost transport
call_Disconnect_as_proto_error(e) ==
    After(<<Ev("proto_error", From_EncoderError(e))>>,
          ControlResponse_new(proto_error(From_EncoderError(e))))

\* the DispatchItem::Disconnect(err) arm
call_Disconnect(e) == ControlResponse_new(peer_gone(e))

call(request, res) ==
    CASE request.kind = "Item" -> call_Item(request.frame, res)
      [] request.kind = "EncoderError" -> call_EncoderError(request.err)
      [] request.kind = "DecoderError" -> call_DecoderError(request.err)
      [] request.kind = "KeepAliveTimeout" -> call_KeepAliveTimeout
      [] request.kind = "Disconnect" -> call_Disconnect(request.err)
      [] request.kind \in {"WBackPressureEnabled", "WBackPressureDisabled"} -> ReadyNone

(***************************************************************************)
(* The futures' poll.  cr is what the poll of the Control future returns,  *)
(* pr what the poll of the Publish future returns.                         *)
(***************************************************************************)
\* ControlResponse::poll without the is_zero check on the RST_STREAM's id
ControlResponse_poll_any_reset(f, cr) ==
    CASE cr.tag = "Pending" -> f
      [] cr.tag = "Ok" ->
            LET rst == IF cr.frame.type = "Reset"
                       THEN <<Ev("rst_stream", <<cr.frame.stream_id, cr.frame.reason>>)>>
                       ELSE <<>>
                close == IF cr.disconnect THEN <<Ev("io.close", 0)>> ELSE <<>>
            IN  [f EXCEPT !.state = "Resolved",
                          !.log = @ \o <<Ev("control.ret", cr)>> \o rst \o close,
                          !.out = Ok(cr.frame)]
      [] cr.tag = "Err" ->
            [f EXCEPT !.state = "Resolved",
                      !.log = @ \o <<Ev("control.ret", cr)>>,
                      !.out = Ok(set_last_stream_id(GoAway_new("INTERNAL_ERROR"),
                                                    last_stream_id))]

\* ControlResponse::poll passing the failure of the Control service on as the
\* future's error
ControlResponse_poll_failure_passed_on(f, cr) ==
    CASE cr.tag = "Pending" -> f
      [] cr.tag = "Ok" ->
            LET rst == IF cr.frame.type = "Reset" /\ cr.frame.stream_id # 0
                       THEN <<Ev("rst_stream", <<cr.frame.stream_id, cr.frame.reason>>)>>
                       ELSE <<>>
                close == IF cr.disconnect THEN <<Ev("io.close", 0)>> ELSE <<>>
            IN  [f EXCEPT !.state = "Resolved",
                          !.log = @ \o <<Ev("control.ret", cr)>> \o rst \o close,
                          !.out = Ok(cr.frame)]
      [] cr.tag = "Err" ->
            [f EXCEPT !.state = "Resolved",
                      !.log = @ \o <<Ev("control.ret", cr)>>,
                      !.out = [tag |-> "Err", frame |-> NoFrame]]

\* impl Future for ControlResponse
ControlResponse_poll(f, cr) ==
    CASE cr.tag = "Pending" -> f
      [] cr.tag = "Ok" ->
            LET rst == IF cr.frame.type = "Reset" /\ cr.frame.stream_id # 0
                       THEN <<Ev("rst_stream", <<cr.frame.stream_id, cr.frame.reason>>)>>
                       ELSE <<>>
                close == IF cr.disconnect THEN <<Ev("io.close", 0)>> ELSE <<>>
            IN  [f EXCEPT !.state = "Resolved",
                          !.log = @ \o <<Ev("control.ret", cr)>> \o rst \o close,
                          !.out = Ok(cr.frame)]
      [] cr.tag = "Err" ->
            [f EXCEPT !.state = "Resolved",
                      !.log = @ \o <<Ev("control.ret", cr)>>,
                      !.out = Ok(set_last_stream_id(GoAway_new("INTERNAL_ERROR"),
                                                    last_stream_id))]

\* PublishResponse::poll swallowing a Publish failure
PublishResponse_poll_error_dropped(f, pr, cr) ==
    CASE f.state = "Publish" /\ pr.tag = "Pending" -> f
      [] f.state = "Publish" /\ pr.tag # "Pending" ->
            [f EXCEPT !.state = "Resolved",
                      !.log = @ \o <<Ev("publish.ret", pr)>>,
                      !.out = Ok(NoFrame)]

\* PublishResponse::poll leaving the state at Publish after the Publish future
\* has failed, so that a later poll finds the failure again
PublishResponse_poll_state_kept(f, pr, cr) ==
    CASE f.state = "Publish" ->
            (CASE pr.tag = "Ok" ->
                     [f EXCEPT !.state = "Resolved",
                               !.log = @ \o <<Ev("publish.ret", pr)>>,
                               !.out = Ok(NoFrame)]
               [] pr.tag = "Err" ->
                     LET ctl == ControlResponse_new(app_error(pr.err, f.stream))
                         g == [f EXCEPT !.log = @ \o <<Ev("publish.ret", pr)>> \o ctl.log]
                     IN  ControlResponse_poll(g, cr)
               [] pr.tag = "Pending" -> f)
      [] f.state = "Control" -> ControlResponse_poll(f, cr)

\* impl Future for PublishResponse
PublishResponse_poll(f, pr, cr) ==
    CASE f.state = "Publish" ->
            (CASE pr.tag = "Ok" ->
                     [f EXCEPT !.state = "Resolved",
                               !.log = @ \o <<Ev("publish.ret", pr)>>,
                               !.out = Ok(NoFrame)]
               [] pr.tag = "Err" ->
                     LET ctl == ControlResponse_new(app_error(pr.err, f.stream))
                         g == [f EXCEPT !.state = "Control",
                                        !.log = @ \o <<Ev("publish.ret", pr)>> \o ctl.log]
                     IN  ControlResponse_poll(g, cr)
               [] pr.tag = "Pending" -> f)
      [] f.state = "Control" -> ControlResponse_poll(f, cr)

\* impl Future for Either<PublishResponse, Either<Ready, ControlResponse>>
ServiceFut_poll(f, pr, cr) ==
    CASE f.either = "Left" -> PublishResponse_poll(f, pr, cr)
      [] f.either = "RightLeft" -> [f EXCEPT !.state = "Resolved", !.out = Ok(NoFrame)]
      [] f.either = "RightRight" -> ControlResponse_poll(f, cr)

\* poll_ready pending only when both services are
poll_ready_both_pending(res1, res2) ==
    IF res1 = "Pending" /\ res2 = "Pending" THEN "Pending" ELSE "ReadyOk"

\* Dispatcher::poll_ready, given the two services' poll_ready results
poll_ready(res1, res2) ==
    IF res1 = "Pending" \/ res2 = "Pending" THEN "Pending" ELSE "ReadyOk"

ReadyPolls == {"Pending", "ReadyOk", "ReadyErr"}

\* poll_ready asking the Control service only when the Publish service is ready
poll_ready_polls_until_pending(res1, res2) ==
    <<Ev("publish.poll_ready", res1)>>
        \o (IF res1 = "Pending" THEN <<>> ELSE <<Ev("control.poll_ready", res2)>>)

\* the polls Dispatcher::poll_ready makes, in program order, with their results
poll_ready_polls(res1, res2) ==
    <<Ev("publish.poll_ready", res1), Ev("control.poll_ready", res2)>>

\* Poll<()> of a service's poll_shutdown
ShutdownPolls == {"Pending", "Ready"}

\* poll_shutdown calling Control again for as long as the future is not done
poll_shutdown_restarting(sd, is_error, cr, res1, res2) ==
    LET start == sd # "Done"
        done == start /\ cr.tag # "Pending"
    IN  [shutdown |-> IF done \/ sd = "Done" THEN "Done" ELSE "InProcess",
         calls |-> IF start THEN <<terminated(is_error)>> ELSE <<>>,
         states |-> <<sd>> \o (IF sd = "NotSet" THEN <<"InProcess">> ELSE <<>>)
                          \o (IF done THEN <<"Done">> ELSE <<>>),
         log |-> (IF start THEN <<Ev("control.call", terminated(is_error)),
                                  Ev("fut.poll", cr)>> ELSE <<>>)
                   \o (IF done \/ sd = "Done"
                       THEN <<Ev("publish.poll_shutdown", <<is_error, res1>>),
                              Ev("control.poll_shutdown", <<is_error, res2>>)>>
                       ELSE <<>>),
         result |-> IF (done \/ sd = "Done") /\ res1 = "Ready" /\ res2 = "Ready"
                    THEN "Ready" ELSE "Pending"]

\* poll_shutdown polling the services without waiting for the Terminated future
poll_shutdown_not_waiting(sd, is_error, cr, res1, res2) ==
    LET start == sd = "NotSet"
        sd1 == IF start THEN "InProcess" ELSE sd
        done == sd1 = "InProcess" /\ cr.tag # "Pending"
    IN  [shutdown |-> IF done THEN "Done" ELSE sd1,
         calls |-> IF start THEN <<terminated(is_error)>> ELSE <<>>,
         states |-> <<sd>> \o (IF start THEN <<"InProcess">> ELSE <<>>)
                          \o (IF done THEN <<"Done">> ELSE <<>>),
         log |-> (IF start THEN <<Ev("control.call", terminated(is_error))>> ELSE <<>>)
                   \o (IF sd1 = "InProcess" THEN <<Ev("fut.poll", cr)>> ELSE <<>>)
                   \o <<Ev("publish.poll_shutdown", <<is_error, res1>>),
                        Ev("control.poll_shutdown", <<is_error, res2>>)>>,
         result |-> IF res1 = "Pending" \/ res2 = "Pending" THEN "Pending" ELSE "Ready"]

\* poll_shutdown taking the Terminated future as done only when it succeeded
poll_shutdown_failure_blocks(sd, is_error, cr, res1, res2) ==
    LET start == sd = "NotSet"
        sd1 == IF start THEN "InProcess" ELSE sd
        done == sd1 = "InProcess" /\ cr.tag = "Ok"
        shutdown_ready == sd1 = "Done" \/ done
    IN  [shutdown |-> IF done THEN "Done" ELSE sd1,
         calls |-> IF start THEN <<terminated(is_error)>> ELSE <<>>,
         states |-> <<sd>> \o (IF start THEN <<"InProcess">> ELSE <<>>)
                          \o (IF done THEN <<"Done">> ELSE <<>>),
         log |-> (IF start THEN <<Ev("control.call", terminated(is_error))>> ELSE <<>>)
                   \o (IF sd1 = "InProcess" THEN <<Ev("fut.poll", cr)>> ELSE <<>>)
                   \o (IF shutdown_ready
                       THEN <<Ev("publish.poll_shutdown", <<is_error, res1>>),
                              Ev("control.poll_shutdown", <<is_error, res2>>)>>
                       ELSE <<>>),
         result |-> IF shutdown_ready
                    THEN (IF res1 = "Pending" \/ res2 = "Pending"
                          THEN "Pending" ELSE "Ready")
                    ELSE "Pending"]

\* Dispatcher::poll_shutdown(cx, is_error) in shutdown state sd, where cr is what
\* a poll of the Terminated future returns and res1, res2 what the services'
\* poll_shutdown return.  calls: the Control calls made; states: the values the
\* shutdown cell holds, from entry on; log: the effects, in program order.
poll_shutdown(sd, is_error, cr, res1, res2) ==
    LET start == sd = "NotSet"
        sd1 == IF start THEN "InProcess" ELSE sd
        done == sd1 = "InProcess" /\ cr.tag # "Pending"
        shutdown_ready == sd1 = "Done" \/ done
    IN  [shutdown |-> IF done THEN "Done" ELSE sd1,
         calls |-> IF start THEN <<terminated(is_error)>> ELSE <<>>,
         states |-> <<sd>> \o (IF start THEN <<"InProcess">> ELSE <<>>)
                          \o (IF done THEN <<"Done">> ELSE <<>>),
         log |-> (IF start THEN <<Ev("control.call", terminated(is_error))>> ELSE <<>>)
                   \o (IF sd1 = "InProcess" THEN <<Ev("fut.poll", cr)>> ELSE <<>>)
                   \o (IF shutdown_ready
                       THEN <<Ev("publish.poll_shutdown", <<is_error, res1>>),
                              Ev("control.poll_shutdown", <<is_error, res2>>)>>
                       ELSE <<>>),
         result |-> IF shutdown_ready
                    THEN (IF res1 = "Pending" \/ res2 = "Pending"
                          THEN "Pending" ELSE "Ready")
                    ELSE "Pending"]

(***************************************************************************)
(* The Connection's streams, as far as the dispatcher's calls touch them.  *)
(***************************************************************************)
\* a stream: frames, the HEADERS and DATA frames the Connection has taken for
\* it; msgs, the Messages handed to the Publish service for it
Idle == [state |-> "idle", reason |-> "", frames |-> <<>>, msgs |-> <<>>]

Open == [state |-> "open", reason |-> "", frames |-> <<>>, msgs |-> <<>>]

Closed(reason) == [state |-> "closed", reason |-> reason, frames |-> <<>>, msgs |-> <<>>]

\* the Connection holds the stream
Held(strs, id) == id \in DOMAIN strs /\ strs[id].state = "open"

\* Connection::recv_go_away(reason, data): the connection learns the reason
\* and the debug data only, and fails the streams it holds with Closed(reason)
recv_go_away(strs, reason, data) ==
    [id \in DOMAIN strs |-> IF Held(strs, id) THEN Closed(reason) ELSE strs[id]]

\* ConnectionState::rst_stream(id, reason): the stream, if held, is reset
rst_stream(strs, id, reason) ==
    IF Held(strs, id)
    THEN [strs EXCEPT ![id] = Closed(reason)]
    ELSE strs

\* StreamRef::set_failed_stream(err): the stream of err, if held, is failed with
\* that error; no other stream is touched
set_failed_stream(strs, err) ==
    IF Held(strs, err.stream)
    THEN [strs EXCEPT ![err.stream] = Closed(err.kind)]
    ELSE strs

\* the stream's receive side has ended: the last frame taken had END_STREAM
RecvEnded(s) == s.frames # <<>> /\ s.frames[Len(s.frames)].eof

\* recv_headers on a stream the Connection holds: the stream's first HEADERS
\* yields Message::new; a HEADERS after it (trailers) is answered with an error
Stream_recv_headers(s, hdrs) ==
    IF s.frames = <<>>
    THEN {ResMsg(Message_new(0, hdrs.eof, hdrs.stream_id))}
    ELSE {ResProtoErr(e) : e \in ConnErrors}

\* recv_data on a stream the Connection holds: DATA is taken after the HEADERS
\* and until END_STREAM, and yields Message::data
Stream_recv_data(s, data) ==
    IF s.frames # <<>> /\ ~RecvEnded(s) /\ Len(s.frames) < MaxFrames
    THEN {ResMsg(Message_data(data.data, data.eof, data.stream_id))}
    ELSE {ResProtoErr(e) : e \in ConnErrors}

\* the outcomes of the Connection call Dispatcher::call makes for `request`
\* when the streams are strs: a stream the Connection holds answers by its
\* state, anything else as in ConnResults
ConnResultsIn(strs, request) ==
    IF /\ request.kind = "Item"
       /\ request.frame.type \in {"Headers", "Data"}
       /\ Held(strs, request.frame.stream_id)
    THEN IF request.frame.type = "Headers"
         THEN Stream_recv_headers(strs[request.frame.stream_id], request.frame)
         ELSE Stream_recv_data(strs[request.frame.stream_id], request.frame)
    ELSE ConnResults(request)

\* the stream keeps the frame it has taken
recv_frame(strs, request, res) ==
    IF res.tag = "Msg" /\ Held(strs, res.stream)
    THEN [strs EXCEPT ![res.stream].frames = Append(@, request.frame)]
    ELSE strs

\* Publish.call(msg): the application has been handed msg for msg's stream
publish_call(strs, msg) ==
    IF Held(strs, msg.stream)
    THEN [strs EXCEPT ![msg.stream].msgs = Append(@, msg)]
    ELSE strs

\* the streams after the Connection calls in `log`, made in that order
RECURSIVE apply_log(_, _)
apply_log(strs, log) ==
    IF log = <<>> THEN strs
    ELSE LET e == Head(log)
             next == CASE e.op = "recv_go_away" -> recv_go_away(strs, e.arg[1], e.arg[2])
                       [] e.op = "rst_stream" -> rst_stream(strs, e.arg[1], e.arg[2])
                       [] e.op = "set_failed_stream" -> set_failed_stream(strs, e.arg)
                       [] e.op = "publish.call" -> publish_call(strs, e.arg)
                       [] OTHER -> strs
         IN  apply_log(next, Tail(log))

\* the local stream ids in use: ids are handed out in increasing order
next_stream_id(strs) ==
    IF \A id \in DOMAIN strs : strs[id] # Idle THEN 0
    ELSE CHOOSE id \in DOMAIN strs :
            strs[id] = Idle /\ \A j \in DOMAIN strs : j < id => strs[j] # Idle

(***************************************************************************)
(* The client Connector (src/src/client/connector.rs).                     *)
(***************************************************************************)
\* Option<T>: None, Some(v)
None == <<>>

Some(v) == <<v>>

unwrap_or(o, d) == IF o = None THEN d ELSE o[1]

\* consts::PREFACE: the octets of "PRI * HTTP/2.0\r\n\r\nSM\r\n\r\n"
PREFACE ==
    <<80, 82, 73, 32, 42, 32, 72, 84, 84, 80, 47, 50, 46, 48, 13, 10, 13, 10,
      83, 77, 13, 10, 13, 10>>

\* frame::DEFAULT_INITIAL_WINDOW_SIZE
DEFAULT_INITIAL_WINDOW_SIZE == 65535

\* the Settings a Connector may have been configured with
Settings ==
    [initial_window_size : {None, Some(1024)},
     max_frame_size : {None, Some(32768)},
     max_header_list_size : {None, Some(4096)},
     max_concurrent_streams : {None, Some(10)},
     is_extended_connect_protocol_enabled : {None, Some(TRUE), Some(FALSE)}]

\* impl From<Settings> for Frame
From_Settings(settings) == [type |-> "Settings", settings |-> settings]

\* no connection is being made
NoClient == [state |-> "none"]

\* a Connector with its configuration, before connect is called
Connector_new(settings, handshake_timeout) ==
    [state |-> "new", settings |-> settings, handshake_timeout |-> handshake_timeout,
     io |-> [tag |-> "Pending", err |-> ""], timed_out |-> FALSE,
     wbuf |-> <<>>, result |-> [tag |-> "Pending"], allocated |-> <<>>]

\* what the transport connector's call resolves to
IoResults == {[tag |-> "Ok", err |-> ""], [tag |-> "Err", err |-> "connect_err"]}

\* what is written to the transport: octets put into the write buffer, or a
\* frame encoded into it
Bytes(octets) == [kind |-> "bytes", octets |-> octets]

Encoded(frame) == [kind |-> "frame", frame |-> frame]

\* ClientError::from(connect::ConnectError), applied by `?`
From_ConnectError(e) == <<"Connect", e>>

\* the Codec and the Config that Connector::_connect builds from the settings
ClientConnection_new(settings) ==
    LET codec == [max_recv_frame_size |-> settings.max_frame_size,
                  max_recv_header_list_size |-> settings.max_header_list_size]
        cfg == [local_init_window_sz |->
                    unwrap_or(settings.initial_window_size, DEFAULT_INITIAL_WINDOW_SIZE),
                initial_max_send_streams |-> 0,
                local_next_stream_id |-> 2,
                extended_connect_protocol_enabled |->
                    unwrap_or(settings.is_extended_connect_protocol_enabled, FALSE),
                remote_init_window_sz |-> DEFAULT_INITIAL_WINDOW_SIZE,
                remote_max_initiated |-> settings.max_concurrent_streams]
    IN  [tag |-> "Ok", err |-> <<>>, codec |-> codec, cfg |-> cfg,
         next_stream_id |-> cfg.local_next_stream_id]

\* a failed connect: no ClientConnection
Err(e) == [tag |-> "Err", err |-> e]

\* Connector::_connect writing the SETTINGS frame ahead of the preface
_connect_settings_first(inner, io) ==
    IF io.tag = "Err"
    THEN [wbuf |-> <<>>, result |-> Err(From_ConnectError(io.err))]
    ELSE [wbuf |-> <<Encoded(From_Settings(inner.settings)), Bytes(PREFACE)>>,
          result |-> ClientConnection_new(inner.settings)]

\* Connector::_connect from the point where the transport connector's future
\* has resolved to io: what it writes to the transport, and its result
_connect(inner, io) ==
    IF io.tag = "Err"
    THEN [wbuf |-> <<>>, result |-> Err(From_ConnectError(io.err))]
    ELSE [wbuf |-> <<Bytes(PREFACE), Encoded(From_Settings(inner.settings))>>,
          result |-> ClientConnection_new(inner.settings)]

\* Connector::connect returning the inner result although the timer elapsed
connect_timeout_ignored(fut) ==
    IF fut.tag = "Ok" THEN fut.res ELSE ClientConnection_new(fut.inner.settings)

\* Connector::connect, given what timeout_checked(handshake_timeout, _connect)
\* resolves to: Ok(res) with the result of _connect, or Err(()) on timeout
connect(fut) ==
    IF fut.tag = "Ok" THEN fut.res ELSE Err(<<"HandshakeTimeout">>)

\* Seconds a Connector may have as handshake_timeout; 0 disables the timer
HandshakeTimeouts == {0, 5}

(***************************************************************************)
(* The state machine.  futs: the unresolved futures Dispatcher::call has   *)
(* returned, oldest first; ret: what the last operation returned to its    *)
(* caller, until the caller has taken it.                                  *)
(***************************************************************************)
NoRet == [op |-> "none"]

Remove(seq, i) == SubSeq(seq, 1, i - 1) \o SubSeq(seq, i + 1, Len(seq))

Init ==
    /\ futs = <<>>
    /\ ret = NoRet
    /\ shutdown = "NotSet"
    /\ term = <<>>
    /\ streams = [id \in StreamIds |-> Idle]
    /\ draining = FALSE
    /\ client = NoClient

\* the raw PING frames the peer may send: a frame head and the payload octets
RawPings ==
    [kind : {"Ping"}, stream_id : 0 .. MaxStream, flag : {0, ACK_FLAG},
     bytes : {Octets(n, 1) : n \in 0 .. MaxPingLen} \cup Payloads]

\* the codec decoding a raw PING: the frame Ping::load builds, or its error
decode(raw) ==
    LET r == Ping_load([stream_id |-> raw.stream_id, flag |-> raw.flag], raw.bytes)
    IN  IF r.tag = "Ok" THEN DispatchItem("Item", r.ping, "")
        ELSE DispatchItem("DecoderError", NoFrame, r.err)

\* an item that was not decoded in the model has no raw frame
NoRaw == [kind |-> "None", stream_id |-> 0, flag |-> 0, bytes |-> <<>>]

\* the transport delivers one of inputs, a raw frame and the item decoded from
\* it, while fewer than n futures are unresolved: Dispatcher::call
CallFrom(inputs, n) ==
    /\ ret = NoRet
    /\ Len(futs) < n
    /\ \E input \in inputs : \E res \in ConnResultsIn(streams, input.request) :
          LET request == input.request
              f == call(request, res)
          IN  /\ futs' = Append(futs, [request |-> request, res |-> res,
                                       raw |-> input.raw] @@ f)
              /\ streams' = apply_log(recv_frame(streams, request, res), f.log)
              /\ draining' = (draining \/ \E i \in 1 .. Len(f.log) :
                                             f.log[i].op = "recv_go_away")
    /\ UNCHANGED <<ret, shutdown, term, client>>

\* the transport delivers an item of reqs
CallUpTo(reqs, n) == CallFrom({[raw |-> NoRaw, request |-> r] : r \in reqs}, n)

CallOf(reqs) == CallUpTo(reqs, MaxInflight)

Call == CallOf(Requests)

\* the executor polls one of the futures, the Publish future answering with
\* one of prs and the Control future with one of crs
PollOf(prs, crs) ==
    /\ ret = NoRet
    /\ \E i \in 1 .. Len(futs) : \E pr \in prs, cr \in crs :
          LET f == ServiceFut_poll(futs[i], pr, cr)
          IN  /\ IF f.state = "Resolved"
                 THEN /\ futs' = Remove(futs, i)
                      /\ ret' = [op |-> "poll", fut |-> f]
                 ELSE /\ futs' = [futs EXCEPT ![i] = f]
                      /\ ret' = ret
              /\ streams' = apply_log(streams, SubSeq(f.log, Len(futs[i].log) + 1,
                                                      Len(f.log)))
    /\ UNCHANGED <<shutdown, term, draining, client>>

Poll == PollOf(PubPolls, CtlPolls)

\* the executor polls one of the futures while the service's future it waits
\* for is pending: the poll returns Pending and the future stays as it is;
\* the poll is noted in the future's log
PollPending ==
    /\ ret = NoRet
    /\ \E i \in 1 .. Len(futs) :
          /\ futs[i].state \in {"Publish", "Control"}
          /\ Cardinality({j \in 1 .. Len(futs[i].log) :
                              futs[i].log[j].op = "poll.pending"}) < MaxPolls
          /\ ServiceFut_poll(futs[i], Pending, Pending) = futs[i]
          /\ futs' = [futs EXCEPT ![i].log = Append(@, Ev("poll.pending", futs[i].state))]
    /\ UNCHANGED <<ret, shutdown, term, streams, draining, client>>

\* the framework asks for readiness: Dispatcher::poll_ready
PollReady ==
    /\ ret = NoRet
    /\ \E res1 \in ReadyPolls, res2 \in ReadyPolls :
          ret' = [op |-> "poll_ready", res1 |-> res1, res2 |-> res2,
                  log |-> poll_ready_polls(res1, res2),
                  result |-> poll_ready(res1, res2)]
    /\ UNCHANGED <<futs, shutdown, term, streams, draining, client>>

\* the framework shuts the service down: Dispatcher::poll_shutdown, a poll of
\* the Terminated future answering with one of crs and the services'
\* poll_shutdown with one of rs1 and one of rs2
PollShutdownOf(crs, rs1, rs2) ==
    /\ ret = NoRet
    /\ \E is_error \in BOOLEAN, cr \in crs :
       \E res1 \in rs1, res2 \in rs2 :
          LET r == poll_shutdown(shutdown, is_error, cr, res1, res2)
          IN  /\ shutdown' = r.shutdown
              /\ term' = term \o r.calls
              /\ ret' = [op |-> "poll_shutdown", is_error |-> is_error,
                         states |-> r.states, log |-> r.log, result |-> r.result]
    /\ UNCHANGED <<futs, streams, draining, client>>

PollShutdown == PollShutdownOf(CtlPolls, ShutdownPolls, ShutdownPolls)

\* the application opens a local stream
OpenStream ==
    /\ ret = NoRet
    /\ ~draining
    /\ next_stream_id(streams) # 0
    /\ streams' = [streams EXCEPT ![next_stream_id(streams)] = Open]
    /\ UNCHANGED <<futs, ret, shutdown, term, draining, client>>

\* the caller takes what the operation returned
Return ==
    /\ ret # NoRet
    /\ ret' = NoRet
    /\ UNCHANGED <<futs, shutdown, term, streams, draining, client>>

Next == Call \/ Poll \/ PollReady \/ Return

Spec == Init /\ [][Next]_vars

\* items arriving one at a time, the future of each being polled any number
\* of times while the services are pending
NextPolls == CallUpTo(Requests, 1) \/ PollPending \/ Poll \/ Return

SpecPolls == Init /\ [][NextPolls]_vars

\* the service's shutdown
NextShutdown == PollShutdown \/ Return

SpecShutdown == Init /\ [][NextShutdown]_vars

\* the service's shutdown under fair repeated polling: the caller takes each
\* result and polls again; the Terminated future does not stay pending for
\* ever; and the two services, asked again and again, are not for ever found
\* with one of them pending
SpecShutdownFair ==
    /\ SpecShutdown
    /\ WF_vars(Return)
    /\ SF_vars(PollShutdownOf(CtlPolls \ {Pending}, ShutdownPolls, ShutdownPolls))
    /\ SF_vars(PollShutdownOf(CtlPolls, {"Ready"}, {"Ready"}))

\* GOAWAY frames arriving while the application opens streams
NextGoAway ==
    OpenStream \/ CallOf({r \in Requests : r.frame.type = "GoAway"}) \/ Poll \/ Return

SpecGoAway == Init /\ [][NextGoAway]_vars

\* WINDOW_UPDATE and RST_STREAM frames arriving while streams are open
NextStreamError ==
    \/ OpenStream
    \/ CallOf({r \in Requests : r.frame.type \in {"WindowUpdate", "Reset"}})
    \/ Poll
    \/ Return

SpecStreamError == Init /\ [][NextStreamError]_vars

\* the peer sends, for a stream the Connection holds, a frame the stream takes
InOrder(strs, request) ==
    /\ request.kind = "Item"
    /\ request.frame.type \in {"Headers", "Data"}
    /\ Held(strs, request.frame.stream_id)
    /\ \A res \in ConnResultsIn(strs, request) : res.tag = "Msg"

\* HEADERS and DATA frames arriving in order for the streams the Connection
\* holds, an item being taken while the futures of earlier ones are unresolved
NextMessages ==
    \/ OpenStream
    \/ CallUpTo({r \in Requests : InOrder(streams, r)}, MaxInflight + 1)
    \/ PollOf({pr \in PubPolls : pr.tag # "Err"}, {Pending})
    \/ Return

SpecMessages == Init /\ [][NextMessages]_vars

\* raw PING frames arriving, each decoded and handed to Dispatcher::call
NextPing ==
    \/ CallFrom({[raw |-> w, request |-> decode(w)] : w \in RawPings}, MaxInflight)
    \/ Poll
    \/ Return

SpecPing == Init /\ [][NextPing]_vars

\* the items the dispatcher takes without going through the Connection
\* arriving while streams are open: PRIORITY frames, the transport's
\* disconnect and its write back-pressure notifications
Passive(request) ==
    \/ request.kind \in {"Disconnect", "WBackPressureEnabled", "WBackPressureDisabled"}
    \/ request.kind = "Item" /\ request.frame.type = "Priority"

NextPassive ==
    \/ OpenStream
    \/ CallOf({r \in Requests : Passive(r)})
    \/ Poll
    \/ Return

SpecPassive == Init /\ [][NextPassive]_vars

\* a Connector with some configuration, on which connect is about to be called
InitConnect ==
    /\ futs = <<>>
    /\ ret = NoRet
    /\ shutdown = "NotSet"
    /\ term = <<>>
    /\ streams = [id \in StreamIds |-> Idle]
    /\ draining = FALSE
    /\ \E settings \in Settings, t \in HandshakeTimeouts :
          client = Connector_new(settings, t)

\* Connector::connect is called: the transport connector is called, and the
\* handshake timer armed
Connect ==
    /\ client.state = "new"
    /\ client' = [client EXCEPT !.state = "connecting"]
    /\ UNCHANGED <<futs, ret, shutdown, term, streams, draining>>

\* the transport connector's future resolves, and _connect runs to its end
ConnectorReady ==
    /\ client.state = "connecting"
    /\ \E io \in IoResults :
          LET r == _connect(client, io)
          IN  client' = [client EXCEPT
                            !.state = "done",
                            !.io = io,
                            !.wbuf = @ \o r.wbuf,
                            !.result = connect([tag |-> "Ok", res |-> r.result,
                                                inner |-> client])]
    /\ UNCHANGED <<futs, ret, shutdown, term, streams, draining>>

\* the handshake timer elapses while the transport connector is still pending
TimerFires ==
    /\ client.state = "connecting"
    /\ client.handshake_timeout # 0
    /\ client' = [client EXCEPT
                      !.state = "done",
                      !.timed_out = TRUE,
                      !.result = connect([tag |-> "Err", res |-> Err(<<>>),
                                          inner |-> client])]
    /\ UNCHANGED <<futs, ret, shutdown, term, streams, draining>>

\* the connection allocates the id of a new local stream
SendRequest ==
    /\ client.state = "done"
    /\ client.result.tag = "Ok"
    /\ Len(client.allocated) < MaxStream
    /\ client' = [client EXCEPT
                      !.allocated = Append(@, client.result.next_stream_id),
                      !.result.next_stream_id = @ + 2]
    /\ UNCHANGED <<futs, ret, shutdown, term, streams, draining>>

NextConnect == Connect \/ ConnectorReady \/ TimerFires \/ SendRequest

SpecConnect == InitConnect /\ [][NextConnect]_vars

\* the error codes of HTTP/2
ReasonCodes ==
    {"NO_ERROR", "PROTOCOL_ERROR", "INTERNAL_ERROR", "FLOW_CONTROL_ERROR",
     "SETTINGS_TIMEOUT", "STREAM_CLOSED", "FRAME_SIZE_ERROR", "REFUSED_STREAM",
     "CANCEL", "COMPRESSION_ERROR", "CONNECT_ERROR", "ENHANCE_YOUR_CALM",
     "INADEQUATE_SECURITY", "HTTP_1_1_REQUIRED"}

PseudoHeaders == {"method", "scheme", "path", "status"}

\* the frame::FrameError values Ping::load returns
FrameErrors == {"InvalidStreamId", "BadFrameSize"}

\* every StreamError value
StreamErrors ==
    {StreamError("Idle", a) : a \in {"DATA", "WINDOW_UPDATE"}}
        \cup {StreamError(k, "") :
                 k \in {"Closed", "WindowOverflowed", "WindowZeroUpdateValue",
                        "TrailersWithoutEos", "InvalidContentLength",
                        "WrongPayloadLength", "NonEmptyPayload"}}

\* every ProtocolError value
ProtocolErrors ==
    [kind : {"UnknownStream"}, arg : Frames]
        \cup [kind : {"StreamClosed"}, arg : 0 .. MaxStream]
        \cup [kind : {"Reason"}, arg : ReasonCodes]
        \cup [kind : {"Encoder"}, arg : {"enc_err"}]
        \cup [kind : {"StreamIdle"}, arg : {"DATA", "WINDOW_UPDATE"}]
        \cup [kind : {"MissingPseudo", "UnexpectedPseudo"}, arg : PseudoHeaders]
        \cup [kind : {"InvalidStreamId", "UnexpectedSettingsAck",
                      "ZeroWindowUpdateValue", "KeepaliveTimeout"},
              arg : {""}]
        \cup [kind : {"Frame"}, arg : FrameErrors]

\* every ProtocolError value and every StreamError value is the input of one
\* behaviour
InitErrors ==
    /\ futs = <<>>
    /\ shutdown = "NotSet"
    /\ term = <<>>
    /\ streams = [id \in StreamIds |-> Idle]
    /\ draining = FALSE
    /\ client = NoClient
    /\ \/ \E err \in ProtocolErrors : ret = [op |-> "error", err |-> err]
       \/ \E err \in StreamErrors : ret = [op |-> "stream_error", err |-> err]

\* ProtocolError::to_goaway is applied to the error
ToGoAway ==
    /\ ret.op = "error"
    /\ ret' = [op |-> "to_goaway", err |-> ret.err, result |-> to_goaway(ret.err)]
    /\ UNCHANGED <<futs, shutdown, term, streams, draining, client>>

\* StreamError::reason is applied to the error
ToReason ==
    /\ ret.op = "stream_error"
    /\ ret' = [op |-> "reason", err |-> ret.err, result |-> StreamError_reason(ret.err)]
    /\ UNCHANGED <<futs, shutdown, term, streams, draining, client>>

NextErrors == ToGoAway \/ ToReason \/ Return

SpecErrors == InitErrors /\ [][NextErrors]_vars

\* the GOAWAY of every ProtocolError value, and keep-alive timeouts reported
\* by the transport
NextKeepAlive ==
    \/ ToGoAway
    \/ CallOf({r \in Requests : r.kind = "KeepAliveTimeout"})
    \/ Poll
    \/ Return

SpecKeepAlive == InitErrors /\ [][NextKeepAlive]_vars

(***************************************************************************)
(* Properties.                                                             *)
(***************************************************************************)
\* every future in the state: the unresolved ones and the one just resolved
AllFuts == futs \o (IF ret.op = "poll" THEN <<ret.fut>> ELSE <<>>)

EveryFut(P(_)) == \A k \in 1 .. Len(AllFuts) : P(AllFuts[k])

\* the positions in f's log at which effect `op` was performed
Ops(f, op) == {i \in 1 .. Len(f.log) : f.log[i].op = op}

\* the item yields a ProtocolError: from a recv_* call or a codec/keep-alive item
YieldsProtocolError(f) ==
    \/ f.res.tag = "ProtoErr"
    \/ f.request.kind \in {"EncoderError", "DecoderError", "KeepAliveTimeout"}

\* C1 as stated: for every item that yields a ProtocolError, Control is called
\* with ControlMessage::ProtocolError, and connection.proto_error is performed
\* only after that Control call has returned.
C1_AsStated ==
    LET P(f) == YieldsProtocolError(f) =>
        /\ \E i \in Ops(f, "control.call") : f.log[i].arg.kind = "ProtocolError"
        /\ \A i \in Ops(f, "proto_error") : \E j \in Ops(f, "control.ret") : j < i
    IN  EveryFut(P)

\* C1 amended: for every item that yields a ProtocolError, connection.proto_error
\* is performed first, inside Dispatcher::call and before the Control call is
\* made; Control is then called once with ControlMessage::ProtocolError of the
\* same error; and the future has an output only after that call has returned.
C1_ProtoErrorThenControl ==
    LET P(f) == YieldsProtocolError(f) =>
        /\ Len(f.log) >= 2
        /\ f.log[1].op = "proto_error"
        /\ f.res.tag = "ProtoErr" => f.log[1].arg = f.res.err
        /\ f.log[2].op = "control.call"
        /\ f.log[2].arg.kind = "ProtocolError"
        /\ f.log[2].arg.a = f.log[1].arg
        /\ Ops(f, "proto_error") = {1}
        /\ Ops(f, "control.call") = {2}
        /\ f.out # Unresolved => Ops(f, "control.ret") = {3}
    IN  EveryFut(P)

C1_Witness ==
    /\ ret.op = "poll"
    /\ ret.fut.res.tag = "ProtoErr"
    /\ ret.fut.request.frame.type = "Headers"
    /\ Ops(ret.fut, "control.ret") # {}

\* the result of the Control call made for f failed / succeeded
ControlFailed(f) == \E i \in Ops(f, "control.ret") : f.log[i].arg.tag = "Err"

ControlSucceeded(f) == \E i \in Ops(f, "control.ret") : f.log[i].arg.tag = "Ok"

ControlResultOf(f) == f.log[CHOOSE i \in Ops(f, "control.ret") : TRUE].arg

InternalErrorGoAway(frame) == frame.type = "GoAway" /\ frame.reason = "INTERNAL_ERROR"

\* C2 as stated: whenever the Control call of an item fails, the output is a
\* GOAWAY with reason INTERNAL_ERROR and the transport is closed.
C2_AsStated ==
    LET P(f) == ControlFailed(f) =>
        /\ InternalErrorGoAway(f.out.frame)
        /\ Ops(f, "io.close") # {}
    IN  EveryFut(P)

\* the Publish future of f failed
PublishFailed(f) == \E i \in Ops(f, "publish.ret") : f.log[i].arg.tag = "Err"

PublishErrorOf(f) == f.log[CHOOSE i \in Ops(f, "publish.ret") : TRUE].arg.err

\* C3: for every Message dispatched to Publish: if the Publish future fails,
\* exactly one Control call is made, with ControlMessage::AppError carrying that
\* error and the message's stream, and the outcome of that call is the item's
\* output; if the Publish future succeeds, no Control call is made and the
\* output is no frame.
C3_PublishFailureFolded ==
    LET P(f) == f.res.tag = "Msg" =>
        /\ f.log[1] = Ev("publish.call", f.res.msg)
        /\ Ops(f, "publish.call") = {1}
        /\ IF PublishFailed(f)
           THEN /\ Cardinality(Ops(f, "control.call")) = 1
                /\ \A i \in Ops(f, "control.call") :
                      /\ f.log[i].arg.kind = "AppError"
                      /\ f.log[i].arg.a = PublishErrorOf(f)
                      /\ f.log[i].arg.b = f.res.msg.stream
                      /\ \E j \in Ops(f, "publish.ret") : j < i
                /\ f.out # Unresolved =>
                      /\ Cardinality(Ops(f, "control.ret")) = 1
                      /\ ControlSucceeded(f) => f.out = Ok(ControlResultOf(f).frame)
                      /\ ControlFailed(f) => InternalErrorGoAway(f.out.frame)
           ELSE /\ Ops(f, "control.call") = {}
                /\ f.out # Unresolved =>
                      /\ Ops(f, "publish.ret") # {}
                      /\ f.out = Ok(NoFrame)
    IN  EveryFut(P)

C3_Witness ==
    /\ ret.op = "poll"
    /\ ret.fut.res.tag = "Msg"
    /\ ret.fut.res.msg.stream = MaxStream
    /\ PublishFailed(ret.fut)
    /\ ControlSucceeded(ret.fut)
    /\ ret.fut.out.frame.type = "Reset"

\* C4: poll_ready returns Ready only when neither service's poll_ready is
\* Pending; if either is Pending it returns Pending.
C4_ReadyOnlyWhenBothReady ==
    ret.op = "poll_ready" =>
        /\ ret.result # "Pending" => (ret.res1 # "Pending" /\ ret.res2 # "Pending")
        /\ (ret.res1 = "Pending" \/ ret.res2 = "Pending") => ret.result = "Pending"
        /\ ret.result \in {"Pending", "ReadyOk"}

C4_Witness ==
    /\ ret.op = "poll_ready"
    /\ ret.res1 = "ReadyOk"
    /\ ret.res2 = "Pending"
    /\ ret.result = "Pending"

\* the shutdown cell only steps NotSet -> InProcess -> Done
ShutdownStep(a, b) ==
    \/ a = "NotSet" /\ b = "InProcess"
    \/ a = "InProcess" /\ b = "Done"

\* C5: over any sequence of poll_shutdown calls, Control is called with
\* Terminated exactly once, on the first call and with that call's is_error;
\* the shutdown state only moves NotSet -> InProcess -> Done, and calls after
\* Done issue no further Terminated.
C5_TerminatedOnce ==
    /\ Len(term) = (IF shutdown = "NotSet" THEN 0 ELSE 1)
    /\ ret.op = "poll_shutdown" =>
        /\ \A i \in 1 .. Len(ret.states) - 1 : ShutdownStep(ret.states[i], ret.states[i + 1])
        /\ ret.states[Len(ret.states)] = shutdown
        /\ IF ret.states[1] = "NotSet"
           THEN /\ term = <<terminated(ret.is_error)>>
                /\ Ops(ret, "control.call") = {1}
                /\ ret.log[1].arg = terminated(ret.is_error)
           ELSE Ops(ret, "control.call") = {}

C5_Witness ==
    /\ ret.op = "poll_shutdown"
    /\ ret.states = <<"Done">>
    /\ Len(term) = 1
    /\ term[1].a # ret.is_error

\* the Terminated future had completed when effect i of this call was performed
TerminatedCompletedBefore(i) ==
    \/ ret.states[1] = "Done"
    \/ \E j \in Ops(ret, "fut.poll") : j < i /\ ret.log[j].arg.tag # "Pending"

\* C6: Publish.poll_shutdown and Control.poll_shutdown are never polled before
\* the Terminated future has completed, and poll_shutdown returns Ready only
\* when that future has completed and both services' poll_shutdown returned
\* Ready in the same call.
C6_ServicesAfterTerminated ==
    ret.op = "poll_shutdown" =>
        /\ \A i \in Ops(ret, "publish.poll_shutdown") \cup Ops(ret, "control.poll_shutdown") :
              TerminatedCompletedBefore(i)
        /\ shutdown # "Done" =>
              Ops(ret, "publish.poll_shutdown") \cup Ops(ret, "control.poll_shutdown") = {}
        /\ ret.result = "Ready" =>
              /\ shutdown = "Done"
              /\ \E i \in Ops(ret, "publish.poll_shutdown") : ret.log[i].arg[2] = "Ready"
              /\ \E i \in Ops(ret, "control.poll_shutdown") : ret.log[i].arg[2] = "Ready"

C6_Witness ==
    /\ ret.op = "poll_shutdown"
    /\ ret.states = <<"InProcess", "Done">>
    /\ ret.result = "Ready"

\* the ProtocolError a codec or keep-alive item is turned into
ErrorOfItem(request) ==
    CASE request.kind = "EncoderError" -> From_EncoderError(request.err)
      [] request.kind = "DecoderError" -> From_FrameError(request.err)
      [] request.kind = "KeepAliveTimeout" -> KeepaliveTimeout

\* C7: every EncoderError, DecoderError and KeepAliveTimeout item results in
\* exactly one Control call, carrying ControlMessage::ProtocolError built from
\* that error; none is dropped silently.
C7_CodecErrorsReachControl ==
    LET P(f) ==
        f.request.kind \in {"EncoderError", "DecoderError", "KeepAliveTimeout"} =>
            /\ Cardinality(Ops(f, "control.call")) = 1
            /\ \A i \in Ops(f, "control.call") :
                  /\ f.log[i].arg.kind = "ProtocolError"
                  /\ f.log[i].arg.a = ErrorOfItem(f.request)
            /\ f.either = "RightRight"
    IN  EveryFut(P)

C7_Witness ==
    /\ ret.op = "poll"
    /\ ret.fut.request.kind = "DecoderError"
    /\ Ops(ret.fut, "control.ret") # {}

\* C8 as stated: for every inbound PING without ACK the output is a PING with
\* ACK and the same payload; for a PING with ACK the output is no frame and no
\* error is raised.
C8_AsStated ==
    LET P(f) == (f.request.frame.type = "Ping" /\ f.out # Unresolved) =>
        IF f.request.frame.ack
        THEN f.out = Ok(NoFrame) /\ Ops(f, "proto_error") = {}
        ELSE f.out = Ok(Ping_pong(f.request.frame.payload))
    IN  EveryFut(P)

\* C9 as stated: on an inbound GOAWAY(last_stream_id, reason) the connection is
\* draining, the local streams aborted are those with id greater than
\* last_stream_id, with Closed(reason), those with id at most last_stream_id
\* continue, and the GOAWAY is delivered to Control.
C9_AsStated ==
    LET P(f) == f.request.frame.type = "GoAway" =>
        /\ draining
        /\ \E i \in Ops(f, "control.call") : f.log[i].arg = go_away(f.request.frame)
        /\ \A id \in StreamIds :
              id <= f.request.frame.last_stream_id => streams[id].state # "closed"
    IN  EveryFut(P)

\* C10: when the Control call of an item succeeds with ControlResult{frame,
\* disconnect}: a stream is reset iff frame is an RST_STREAM with a nonzero
\* stream id (that id, that reason); the transport is closed iff disconnect;
\* and frame is the item's output, unchanged.
C10_ControlResultApplied ==
    LET P(f) == ControlSucceeded(f) =>
        LET res == ControlResultOf(f)
            reset == res.frame.type = "Reset" /\ res.frame.stream_id # 0
        IN  /\ (Ops(f, "rst_stream") # {}) <=> reset
            /\ \A i \in Ops(f, "rst_stream") :
                  f.log[i].arg = <<res.frame.stream_id, res.frame.reason>>
            /\ Cardinality(Ops(f, "rst_stream")) <= 1
            /\ (Ops(f, "io.close") # {}) <=> res.disconnect
            /\ f.out = Ok(res.frame)
    IN  EveryFut(P)

C10_Witness ==
    /\ ret.op = "poll"
    /\ ControlSucceeded(ret.fut)
    /\ ControlResultOf(ret.fut).frame = Reset_new(0, "CANCEL")
    /\ ControlResultOf(ret.fut).disconnect
    /\ Ops(ret.fut, "rst_stream") = {}

\* the StreamError the Connection raised for the item of f
StreamErrorOf(f) == [kind |-> f.res.err.kind, stream |-> f.res.stream]

\* what Dispatcher::call does for an item whose recv_* call raised a StreamError
StreamErrorHandled(f) ==
    /\ f.request.frame.type \in {"WindowUpdate", "Reset"}
    /\ f.res.stream = f.request.frame.stream_id
    /\ Len(f.log) >= 2
    /\ f.log[1] = Ev("set_failed_stream", StreamErrorOf(f))
    /\ f.log[2] = Ev("control.call", stream_error(StreamErrorOf(f)))
    /\ Ops(f, "set_failed_stream") = {1}
    /\ Ops(f, "control.call") = {2}
    /\ Ops(f, "proto_error") = {}
    /\ Ops(f, "recv_go_away") = {}
    /\ ControlSucceeded(f) => f.out = Ok(ControlResultOf(f).frame)

\* Dispatcher::call has just returned a future for a StreamError
CallWithStreamError ==
    /\ Len(futs') = Len(futs) + 1
    /\ futs'[Len(futs')].res.tag = "StreamErr"

\* C11: when recv_window_update or recv_rst_stream yields a StreamError, the
\* dispatcher marks that stream, and only that stream, as failed and calls
\* Control once with ControlMessage::StreamError of that error; it does not
\* call connection.proto_error and adds no GOAWAY of its own to what Control
\* answers; every other stream is left as it was, and the connection is not
\* put into draining.
C11_StreamErrorStaysOnStream ==
    /\ [](LET P(f) == f.res.tag = "StreamErr" => StreamErrorHandled(f)
          IN  EveryFut(P))
    /\ [][CallWithStreamError =>
            LET f == futs'[Len(futs')]
            IN  /\ \A id \in StreamIds \ {f.res.stream} : streams'[id] = streams[id]
                /\ Held(streams, f.res.stream) =>
                      streams'[f.res.stream] = Closed(f.res.err.kind)
                /\ draining' = draining]_vars

C11_Witness ==
    /\ ret.op = "poll"
    /\ ret.fut.res.tag = "StreamErr"
    /\ ret.fut.res.stream = 1
    /\ ret.fut.request.frame.type = "WindowUpdate"
    /\ ControlSucceeded(ret.fut)
    /\ ret.fut.out.frame = Reset_new(1, "CANCEL")
    /\ streams[1] = Closed("WindowZeroUpdateValue")
    /\ streams[2] = Open

\* the positions of the Eof variants among the messages msgs
Eofs(msgs) == {i \in 1 .. Len(msgs) : msgs[i].kind = "Eof"}

\* msg tells the application that its stream has ended
Terminal(msg) == msg.kind = "Eof" \/ (msg.kind = "Headers" /\ msg.eof)

MessageOf(frame) ==
    IF frame.type = "Headers"
    THEN Message_new(0, frame.eof, frame.stream_id)
    ELSE Message_data(frame.data, frame.eof, frame.stream_id)

C18_AsStated ==
    ret.op = "to_goaway" =>
        /\ ret.result.type = "GoAway"
        /\ ret.result.reason \in ReasonCodes
        /\ Len(ret.result.data) > 0

\* Dispatcher::call has just returned the future of the first item of a new
\* connection, a frame other than SETTINGS
FirstFrameNotSettings ==
    /\ Init
    /\ Len(futs') = 1
    /\ futs'[1].request.kind = "Item"
    /\ futs'[1].request.frame.type # "Settings"

\* C14 as stated: if the first frame received on a new connection is not a
\* SETTINGS frame, a connection error with reason PROTOCOL_ERROR is raised for
\* it and the frame is not processed: nothing is handed to Publish.
C14_AsStated ==
    [][FirstFrameNotSettings =>
        /\ \E i \in Ops(futs'[1], "proto_error") :
              to_goaway(futs'[1].log[i].arg).reason = "PROTOCOL_ERROR"
        /\ Ops(futs'[1], "publish.call") = {}]_vars

\* the GOAWAYs of the connection errors raised for the item of f
GoAwaysOf(f) == {to_goaway(f.log[i].arg) : i \in Ops(f, "proto_error")}

\* C19 as stated: an inbound PING whose payload is not 8 octets long leads to
\* a GOAWAY with reason FRAME_SIZE_ERROR.
C19_AsStated ==
    LET P(f) == (f.raw.kind = "Ping" /\ Len(f.raw.bytes) # PayloadLen) =>
        \E g \in GoAwaysOf(f) : g.reason = "FRAME_SIZE_ERROR"
    IN  EveryFut(P)

\* C20: an inbound PING with a nonzero stream id is rejected by Ping::load with
\* InvalidStreamId whatever the length of its payload, the stream id being
\* checked first; the error reaches the dispatcher as a decoder error, which
\* raises a connection error whose GOAWAY has reason PROTOCOL_ERROR, and tells
\* Control.
C20_PingStreamIdRejected ==
    LET P(f) == (f.raw.kind = "Ping" /\ f.raw.stream_id # 0) =>
        /\ f.request = DispatchItem("DecoderError", NoFrame, "InvalidStreamId")
        /\ Len(f.log) >= 2
        /\ f.log[1] = Ev("proto_error", From_FrameError("InvalidStreamId"))
        /\ f.log[2] = Ev("control.call", proto_error(From_FrameError("InvalidStreamId")))
        /\ Ops(f, "proto_error") = {1}
        /\ \A g \in GoAwaysOf(f) : g.type = "GoAway" /\ g.reason = "PROTOCOL_ERROR"
    IN  EveryFut(P)

C20_Witness ==
    /\ ret.op = "poll"
    /\ ret.fut.raw.kind = "Ping"
    /\ ret.fut.raw.stream_id = MaxStream
    /\ Len(ret.fut.raw.bytes) = PayloadLen - 1
    /\ ret.fut.request.err = "InvalidStreamId"
    /\ Ops(ret.fut, "control.ret") # {}

\* C15: when connect has succeeded, what has been written to the transport is
\* the 24 octets of the client preface first and one SETTINGS frame, built
\* from the Connector's settings, right after it, and nothing else; a connect
\* that has not succeeded has written nothing.
C15_PrefaceThenSettings ==
    /\ Len(PREFACE) = 24
    /\ client.state # "none" =>
          IF client.result.tag = "Ok"
          THEN /\ Len(client.wbuf) = 2
               /\ client.wbuf[1].kind = "bytes"
               /\ client.wbuf[1].octets = PREFACE
               /\ client.wbuf[2].kind = "frame"
               /\ client.wbuf[2].frame.type = "Settings"
               /\ client.wbuf[2].frame.settings = client.settings
          ELSE client.wbuf = <<>>

C15_Witness ==
    /\ client.state = "done"
    /\ client.result.tag = "Ok"
    /\ client.settings.max_frame_size = Some(32768)
    /\ client.settings.is_extended_connect_protocol_enabled = Some(TRUE)
    /\ Len(client.wbuf) = 2
    /\ client.wbuf[2].frame.settings.max_frame_size = Some(32768)

\* C16 as stated: every stream id a connection made by the client Connector
\* allocates is odd: the first is 1, and each following one is larger by 2.
C16_AsStated ==
    client.state = "done" =>
        \A i \in 1 .. Len(client.allocated) : client.allocated[i] = 2 * i - 1

\* C17: if the handshake timer elapses before the inner connect has finished,
\* connect returns ClientError::HandshakeTimeout and nothing, so no GOAWAY, has
\* been written to the transport; if the inner connect finishes first, its
\* own result is returned: the connection, or the connect error.
C17_TimeoutOrInnerResult ==
    client.state = "done" =>
        IF client.timed_out
        THEN /\ client.result = Err(<<"HandshakeTimeout">>)
             /\ client.wbuf = <<>>
             /\ client.io.tag = "Pending"
             /\ client.handshake_timeout # 0
        ELSE /\ client.io.tag = "Ok" => client.result.tag = "Ok"
             /\ client.io.tag = "Err" =>
                   client.result = Err(From_ConnectError(client.io.err))
             /\ client.io.tag # "Pending"

C17_Witness ==
    /\ client.state = "done"
    /\ client.timed_out
    /\ client.result.tag = "Err"
    /\ client.result.err = <<"HandshakeTimeout">>
    /\ client.wbuf = <<>>

\* C21: a KeepAliveTimeout item raises the connection error KeepaliveTimeout,
\* whose GOAWAY has reason NO_ERROR, and Control is called once with
\* ControlMessage::ProtocolError(KeepaliveTimeout); among the ProtocolError
\* variants other than Reason, KeepaliveTimeout is the only one whose GOAWAY
\* has reason NO_ERROR.
C21_KeepaliveTimeoutNoError ==
    /\ (ret.op = "to_goaway" /\ ret.err.kind # "Reason") =>
          (ret.result.reason = "NO_ERROR" <=> ret.err.kind = "KeepaliveTimeout")
    /\ LET P(f) == f.request.kind = "KeepAliveTimeout" =>
            /\ Len(f.log) >= 2
            /\ f.log[1] = Ev("proto_error", KeepaliveTimeout)
            /\ f.log[2] = Ev("control.call", proto_error(KeepaliveTimeout))
            /\ Ops(f, "proto_error") = {1}
            /\ Ops(f, "control.call") = {2}
            /\ Ops(f, "publish.call") = {}
            /\ \A g \in GoAwaysOf(f) : g.type = "GoAway" /\ g.reason = "NO_ERROR"
       IN  EveryFut(P)

C21_Witness ==
    /\ ret.op = "poll"
    /\ ret.fut.request.kind = "KeepAliveTimeout"
    /\ ControlSucceeded(ret.fut)
    /\ GoAwaysOf(ret.fut) = {set_data(GoAway_new("NO_ERROR"), <<"keep-alive timeout">>)}

\* C22: a zero increment of a WINDOW_UPDATE has reason PROTOCOL_ERROR both as
\* the stream error WindowZeroUpdateValue and as the connection error
\* ZeroWindowUpdateValue; the stream errors TrailersWithoutEos and
\* WrongPayloadLength have reason PROTOCOL_ERROR too, WindowOverflowed has
\* FLOW_CONTROL_ERROR and Closed has STREAM_CLOSED.
C22_ReasonOfError ==
    /\ ret.op = "reason" =>
          /\ ret.err.kind \in {"WindowZeroUpdateValue", "TrailersWithoutEos",
                               "WrongPayloadLength"} => ret.result = "PROTOCOL_ERROR"
          /\ ret.err.kind = "WindowOverflowed" => ret.result = "FLOW_CONTROL_ERROR"
          /\ ret.err.kind = "Closed" => ret.result = "STREAM_CLOSED"
    /\ (ret.op = "to_goaway" /\ ret.err.kind = "ZeroWindowUpdateValue") =>
          /\ ret.result.type = "GoAway"
          /\ ret.result.reason = "PROTOCOL_ERROR"

C22_Witness ==
    /\ ret.op = "reason"
    /\ ret.err = StreamError("WindowOverflowed", "")
    /\ ret.result = "FLOW_CONTROL_ERROR"

\* Dispatcher::call has just returned a future for an item of kind k
CallOfKind(k) ==
    /\ Len(futs') = Len(futs) + 1
    /\ futs'[Len(futs')].request.kind = k

\* the item went through Dispatcher::call without any effect: the future is
\* Ready(Ok(None)), no service was called and no Connection call was made
NoEffect(f) ==
    /\ f.either = "RightLeft"
    /\ f.log = <<>>
    /\ f.out \in {Unresolved, Ok(NoFrame)}
    /\ f.state = "Resolved" => f.out = Ok(NoFrame)

\* C23: an inbound PRIORITY frame is accepted and ignored: no Publish call, no
\* Control call, no connection error and no other Connection call is made for
\* it, no stream changes and the connection is not put into draining, and the
\* item's output is no frame.
C23_PriorityIgnored ==
    /\ [](LET P(f) == (f.request.kind = "Item" /\ f.request.frame.type = "Priority")
                          => NoEffect(f)
          IN  EveryFut(P))
    /\ [][(CallOfKind("Item") /\ futs'[Len(futs')].request.frame.type = "Priority")
            => (streams' = streams /\ draining' = draining)]_vars

C23_Witness ==
    /\ ret.op = "poll"
    /\ ret.fut.request.kind = "Item"
    /\ ret.fut.request.frame.type = "Priority"
    /\ ret.fut.out = Ok(NoFrame)
    /\ streams[1] = Open

\* C29: a Disconnect item makes one Control call, with the peer-gone message
\* carrying the transport's error, and neither raises a connection error nor
\* calls Publish; the write back-pressure items call neither service, make no
\* Connection call and output no frame; none of the three changes a stream
\* or the draining state when it is taken.
C29_DisconnectAndBackPressure ==
    /\ [](LET P(f) ==
                /\ f.request.kind = "Disconnect" =>
                      /\ f.either = "RightRight"
                      /\ f.log # <<>>
                      /\ f.log[1] = Ev("control.call", peer_gone(f.request.err))
                      /\ Ops(f, "control.call") = {1}
                      /\ Ops(f, "proto_error") = {}
                      /\ Ops(f, "publish.call") = {}
                /\ f.request.kind \in {"WBackPressureEnabled", "WBackPressureDisabled"}
                      => NoEffect(f)
          IN  EveryFut(P))
    /\ [][(CallOfKind("Disconnect") \/ CallOfKind("WBackPressureEnabled")
              \/ CallOfKind("WBackPressureDisabled"))
            => (streams' = streams /\ draining' = draining)]_vars

C29_Witness ==
    /\ ret.op = "poll"
    /\ ret.fut.request.kind = "Disconnect"
    /\ ControlSucceeded(ret.fut)
    /\ ret.fut.out = Ok(NoFrame)
    /\ streams[1] = Open

\* C24: the message built for a DATA frame by Message::data(bytes, eof, stream)
\* is the terminal Eof(StreamEof::Data(bytes)) if and only if eof is true, and
\* the intermediate Data(bytes) otherwise, with the frame's bytes and stream;
\* no stream is handed a Data message for a frame carrying END_STREAM.
C24_DataOrEof ==
    /\ LET P(f) == (f.request.kind = "Item" /\ f.request.frame.type = "Data"
                      /\ f.res.tag = "Msg") =>
            /\ f.res.msg.kind \in {"Data", "Eof"}
            /\ (f.res.msg.kind = "Eof") <=> f.request.frame.eof
            /\ (f.res.msg.kind = "Data") <=> ~f.request.frame.eof
            /\ f.res.msg.body = f.request.frame.data
            /\ f.res.msg.stream = f.request.frame.stream_id
            /\ f.log[1] = Ev("publish.call", f.res.msg)
       IN  EveryFut(P)
    /\ \A id \in StreamIds : \A i \in 1 .. Len(streams[id].msgs) :
          (i <= Len(streams[id].frames) /\ streams[id].msgs[i].kind = "Data")
              => ~streams[id].frames[i].eof

C24_Witness ==
    /\ Len(futs) = 2
    /\ futs[1].request.frame = [type |-> "Data", stream_id |-> 1, eof |-> FALSE, data |-> 1]
    /\ futs[1].res.msg.kind = "Data"
    /\ futs[2].request.frame = [type |-> "Data", stream_id |-> 1, eof |-> TRUE, data |-> 1]
    /\ futs[2].res.msg.kind = "Eof"
    /\ streams[1].msgs[3].kind = "Eof"

\* the item of f is a HEADERS frame for which the Connection made a stream of
\* the peer: the connection has observed the peer's stream of that id
OpensPeerStream(f) ==
    /\ f.request.kind = "Item"
    /\ f.request.frame.type = "Headers"
    /\ f.res.tag = "Msg"

\* C25 as stated: the GOAWAY(INTERNAL_ERROR) put out when a Control call fails
\* carries, as last_stream_id, the highest stream id the connection had
\* observed from the peer: so, when the failing item itself opened a stream of
\* the peer, an id that is at least that stream's.
C25_AsStated ==
    LET P(f) == (ControlFailed(f) /\ OpensPeerStream(f)) =>
        /\ InternalErrorGoAway(f.out.frame)
        /\ \E highest \in f.request.frame.stream_id .. MaxStream :
              f.out.frame.last_stream_id = highest
    IN  EveryFut(P)

\* C26: every future Dispatcher::call returns resolves to Ok, with a frame or
\* with none, and never to Err: for every kind of item, whatever the Publish
\* and the Control service answer, also when the Publish future fails and the
\* Control call made for that failure fails too.
C26_AlwaysOk ==
    LET P(f) ==
        /\ f.out.tag \in {"Unresolved", "Ok"}
        /\ (f.out.tag = "Ok") <=> (f.state = "Resolved")
        /\ (PublishFailed(f) /\ ControlFailed(f)) =>
              /\ f.out.tag = "Ok"
              /\ InternalErrorGoAway(f.out.frame)
    IN  EveryFut(P)

C26_Witness ==
    /\ ret.op = "poll"
    /\ PublishFailed(ret.fut)
    /\ ControlFailed(ret.fut)
    /\ ret.fut.out = Ok(set_last_stream_id(GoAway_new("INTERNAL_ERROR"), 0))

\* C27: every item passed to Dispatcher::call causes at most one Control call:
\* no Control call is made after a Control call has returned, so a failure of
\* Control is not reported back to Control; and a Publish failure causes
\* exactly one Control call, with ControlMessage::AppError, however many times
\* the future was polled while the Publish future was pending.
C27_OneControlCall ==
    LET P(f) ==
        /\ Cardinality(Ops(f, "control.call")) <= 1
        /\ Cardinality(Ops(f, "control.ret")) <= 1
        /\ \A i \in Ops(f, "control.ret") : \A j \in Ops(f, "control.call") : j < i
        /\ PublishFailed(f) =>
              /\ Cardinality(Ops(f, "control.call")) = 1
              /\ Cardinality(Ops(f, "publish.ret")) = 1
              /\ \A i \in Ops(f, "control.call") : f.log[i].arg.kind = "AppError"
        /\ (f.res.tag = "Msg" /\ ~PublishFailed(f)) => Ops(f, "control.call") = {}
    IN  EveryFut(P)

C27_Witness ==
    /\ ret.op = "poll"
    /\ PublishFailed(ret.fut)
    /\ ControlFailed(ret.fut)
    /\ \E i \in Ops(ret.fut, "publish.ret") :
          /\ Cardinality({j \in Ops(ret.fut, "poll.pending") : j < i}) = MaxPolls
          /\ ret.fut.log[i + 1].op = "control.call"
    /\ Cardinality(Ops(ret.fut, "control.call")) = 1

\* C28: every invocation of poll_ready polls the Publish service and then the
\* Control service, also when the Publish service is Pending; it returns
\* Pending or Ready(Ok(())), never an error: when neither service is Pending
\* the result is Ready(Ok(())), also when one of them reported an error.
C28_BothPolledNoError ==
    ret.op = "poll_ready" =>
        /\ ret.log = <<Ev("publish.poll_ready", ret.res1),
                       Ev("control.poll_ready", ret.res2)>>
        /\ ret.result \in {"Pending", "ReadyOk"}
        /\ (ret.res1 # "Pending" /\ ret.res2 # "Pending") => ret.result = "ReadyOk"

C28_Witness ==
    /\ ret.op = "poll_ready"
    /\ ret.res1 = "ReadyErr"
    /\ ret.res2 = "ReadyOk"
    /\ Ops(ret, "control.poll_ready") = {2}
    /\ ret.result = "ReadyOk"

\* poll_shutdown has just returned Ready
ShutdownReady == ret.op = "poll_shutdown" /\ ret.result = "Ready"

\* the poll of the Terminated future made by the last poll_shutdown failed
TerminatedFailed ==
    /\ ret.op = "poll_shutdown"
    /\ \E i \in Ops(ret, "fut.poll") : ret.log[i].arg.tag = "Err"

\* C30: under fair repeated polling, when the Terminated future completes at
\* some poll and the two services' poll_shutdown are Ready together at later
\* polls, poll_shutdown eventually returns Ready; a Terminated future that
\* completes with a failure leads to Ready as well.
C30_ShutdownCompletes ==
    /\ <>(shutdown = "Done")
    /\ <>ShutdownReady
    /\ TerminatedFailed ~> ShutdownReady

C30_Witness ==
    /\ TerminatedFailed
    /\ shutdown = "Done"
    /\ ShutdownReady

====
